---- MODULE Spec2Model ----
(***************************************************************************)
(* Model of the Helmer media pipeline: the orchestrator loop of index.ts   *)
(* (runOrchestrator), the one of pipeline/orchestrator.ts                  *)
(* (runAgenticWorkflow), the Decision Engine (runDecisionReasoning), and   *)
(* the stages that read and write the persisted semantic map.              *)
(*                                                                         *)
(* Scores in [0,1] (realism, availability, confidence, relevance) are      *)
(* modelled in hundredths: 0.3 is 30, 0.55 is 55, 0.97 is 97.              *)
(***************************************************************************)
EXTENDS Integers, Sequences, FiniteSets, TLC

VARIABLES
    pc,             \* position of the run: which await of runOrchestrator is pending
    initialPrompt,  \* runOrchestrator parameter (sequence of tokens)
    mediaContext,   \* runOrchestrator parameter: modality of the uploaded file or "none"
    requestedModality, \* runOrchestrator parameter
    currentPrompt,  \* local of runOrchestrator
    attempts,       \* local of runOrchestrator
    satisfied,      \* local of runOrchestrator
    decision,       \* local of the loop body: final_decision read after stage 2
    resolvedRole,   \* local of the loop body: user_media.role read after stage 2
    semanticMap,    \* the persisted document at SEMANTIC_MAP_PATH
    attemptNumber,  \* argument of the pending/last runDecisionReasoning call
    passes,         \* history: number of loop bodies started
    outcomes,       \* history: how each ended attempt ended
    lastDecide,     \* history: what the last runDecisionReasoning call saw and did
    lastMatch,      \* history: what the last runRelevanceMatching call did
    lastFetch,      \* history: what the last fetchAndSave call was given and returned
    server,         \* the API server's child processes and the file they share
    propagated      \* history: an error escaped runOrchestrator to its caller

vars == <<pc, initialPrompt, mediaContext, requestedModality, currentPrompt, attempts, satisfied,
          decision, resolvedRole, semanticMap, attemptNumber, passes, outcomes,
          lastDecide, lastMatch, lastFetch, propagated, server>>

----------------------------------------------------------------------------
(* Program constants *)

MAX_RETRIES == 2

MIN_SCORE == 55

BATCH_SIZE == 8

num_images == 3     \* the images one generation request asks for

(* Bounds of the model *)

MaxItems == 2       \* scraped items one fetch pass downloads

NumHashes == 3      \* distinct file contents

HistoryCap == 4     \* the history variables passes and outcomes saturate here

MaxAttemptNumber == 3   \* attemptNumber arguments of a direct runDecisionReasoning call

MaxPrevious == 1    \* relevant_assets a direct runDecisionReasoning call finds in the map

MaxCandidates == 9  \* image candidates a direct runRelevanceMatching call finds in the map

MaxAudioCandidates == 2 \* audio candidates a direct runRelevanceMatching call finds
MaxFetchItems == 4  \* scraped items a direct runFetchAssets call downloads
MaxRequests == 2    \* run-pipeline requests the API server receives

----------------------------------------------------------------------------
(* Values *)

Undefined == -1     \* a missing numeric field of a parsed JSON response

\* Intents the reasoning service answers in stage 1 (realism, availability):
\* one per rule of the Decision Engine, Undefined for a field left out.
IntentSamples == {<<Undefined, Undefined>>, <<Undefined, 20>>, <<90, 90>>, <<20, 90>>}

Roles == {"transform", "style_guide", "reference", "replace"}

Modalities == {"image", "audio"}

FinalDecisions == {"fetch_from_web", "generate_with_model", "hybrid_fetch_and_enhance"}

UserInstruction == "[user instruction: ...]"

StrengthenPrefix == <<"highly", "detailed", "cinematic", "professional", "stock">>

NoUserMedia == [provided |-> FALSE, role |-> "none", modality |-> "none"]

NoDecision == [present |-> FALSE, final_decision |-> "", confidence |-> Undefined,
               has_user_media |-> FALSE, media_use_strategy |-> "none",
               user_asset_path |-> FALSE]

NoMap == [exists |-> FALSE, user_prompt |-> <<>>, requested_modality |-> "image",
          realism_score |-> Undefined, market_availability_estimate |-> Undefined,
          user_media |-> NoUserMedia, decision_reasoning |-> NoDecision,
          fetched_assets |-> <<>>, relevant_assets |-> <<>>]

\* No document at SEMANTIC_MAP_PATH yet: `writer` is the child process whose
\* stage 1 created the document, `updates` the stage results it holds.
NoFile == [writer |-> 0, updates |-> {}]

\* The API server before any request (and in a run started from the CLI).
NoServer == [file |-> NoFile, children |-> <<>>, lost |-> FALSE]

OrDefault(x, d) == IF x = Undefined THEN d ELSE x

----------------------------------------------------------------------------
(* Stage 1: runPromptUnderstanding *)

\* What the reasoning service answered to the stage-1 prompt, after
\* safeJsonParse: ok = FALSE is an unparsable answer (parsed = undefined).
Stage1Responses ==
    {[ok |-> TRUE, realism |-> in[1], availability |-> in[2], role |-> r] :
        in \in IntentSamples, r \in Roles \cup {"missing"}}
    \cup
    {[ok |-> FALSE, realism |-> Undefined, availability |-> Undefined, role |-> "missing"]}

\* userPrompt.replace(/\s*\[user instruction:[^\]]*\]/g, "").trim()
cleanUserPrompt(userPrompt) == SelectSeq(userPrompt, LAMBDA t : t # UserInstruction)

\* const role = llmMedia?.role ?? "reference"
resolveRole(parsed) == IF parsed.role = "missing" THEN "reference" ELSE parsed.role

\* A stage 1 whose document carries a candidate over.
runPromptUnderstandingStale(userPrompt, reqModality, media, parsed) ==
    [exists |-> TRUE,
     user_prompt |-> cleanUserPrompt(userPrompt),
     requested_modality |-> reqModality,
     realism_score |-> parsed.realism,
     market_availability_estimate |-> OrDefault(parsed.availability, 50),
     user_media |-> IF media # "none"
                    THEN [provided |-> TRUE, role |-> resolveRole(parsed), modality |-> media]
                    ELSE NoUserMedia,
     decision_reasoning |-> NoDecision,
     fetched_assets |-> <<[type |-> reqModality, source |-> "pexels", sha256 |-> 1,
                           relevance_score |-> Undefined]>>,
     relevant_assets |-> <<>>]

\* The document runPromptUnderstanding writes: a fresh object, so a decision,
\* fetched_assets and relevant_assets of an earlier attempt are gone.
runPromptUnderstanding(userPrompt, reqModality, media, parsed) ==
    [exists |-> TRUE,
     user_prompt |-> cleanUserPrompt(userPrompt),
     requested_modality |-> reqModality,
     realism_score |-> parsed.realism,
     market_availability_estimate |-> OrDefault(parsed.availability, 50),
     user_media |-> IF media # "none"
                    THEN [provided |-> TRUE, role |-> resolveRole(parsed), modality |-> media]
                    ELSE NoUserMedia,
     decision_reasoning |-> NoDecision,
     fetched_assets |-> <<>>,
     relevant_assets |-> <<>>]

----------------------------------------------------------------------------
(* Stage 2: runDecisionReasoning *)

\* What askDecisionEngine returned, after safeJsonParse: "throw" is a failed
\* call, "unparsable" a response JSON.parse rejects, "json" a parsed object
\* whose fields the service may have filled with anything or left out.
DecisionResponses ==
    {[kind |-> "throw", final_decision |-> "missing", confidence |-> Undefined],
     [kind |-> "unparsable", final_decision |-> "missing", confidence |-> Undefined]}
    \cup
    [kind : {"json"}, final_decision : FinalDecisions \cup {"other"}, confidence : {30}]
    \cup
    {[kind |-> "json", final_decision |-> "missing", confidence |-> Undefined]}

resolveMediaStrategyImageOnly(role, modality) ==
    CASE role = "transform" -> "img2img"
      [] role = "style_guide" -> "style_transfer"
      [] OTHER -> "context_only"

resolveMediaStrategy(role, modality) ==
    CASE role = "transform" -> (IF modality = "audio" THEN "audio_reference" ELSE "img2img")
      [] role = "style_guide" -> "style_transfer"
      [] OTHER -> "context_only"

\* commit(): stamp the decision and, when user media is provided, the media fields.
commit(map, final, confidence) ==
    LET um == map.user_media
        strategy == resolveMediaStrategy(um.role, um.modality)
        enriched ==
            IF um.provided
            THEN [present |-> TRUE, final_decision |-> final, confidence |-> confidence,
                  has_user_media |-> TRUE, media_use_strategy |-> strategy,
                  user_asset_path |-> strategy \in {"img2img", "audio_reference"}]
            ELSE [present |-> TRUE, final_decision |-> final, confidence |-> confidence,
                  has_user_media |-> FALSE, media_use_strategy |-> "none",
                  user_asset_path |-> FALSE]
    IN [map EXCEPT !.decision_reasoning = enriched]

\* The parse-failure fallback of the ambiguous zone and the defaults of commit's arguments.
llmDecisionFallbackFetch(resp) ==
    IF resp.kind = "unparsable"
    THEN [final_decision |-> "fetch_from_web", confidence |-> 60]
    ELSE [final_decision |-> IF resp.final_decision = "missing"
                             THEN "hybrid_fetch_and_enhance" ELSE resp.final_decision,
          confidence |-> OrDefault(resp.confidence, 60)]

llmDecision(resp) ==
    IF resp.kind = "unparsable"
    THEN [final_decision |-> "hybrid_fetch_and_enhance", confidence |-> 60]
    ELSE [final_decision |-> IF resp.final_decision = "missing"
                             THEN "hybrid_fetch_and_enhance" ELSE resp.final_decision,
          confidence |-> OrDefault(resp.confidence, 60)]

mediaOverrideReplaceToo(userMedia) ==
    userMedia.provided /\ userMedia.role \in {"transform", "style_guide", "replace"}

mediaOverrideTransformOnly(userMedia) ==
    userMedia.provided /\ userMedia.role = "transform"

\* Rule 0: user media hard overrides.
mediaOverride(userMedia) ==
    userMedia.provided /\ userMedia.role \in {"transform", "style_guide"}

retryOverrideLate(attempt, previousResults) == attempt > 2 /\ previousResults = 0

\* Rule 1: retry override.
retryOverride(attempt, previousResults) == attempt > 1 /\ previousResults = 0

scarcityOverrideInclusive(scarcity) == scarcity <= 30

\* Scarcity override.
scarcityOverride(scarcity) == scarcity < 30

\* High-confidence rule zone: obvious fetch, obvious generate.
obviousFetch(realism, scarcity) == realism > 80 /\ scarcity > 70

obviousGenerate(realism) == realism < 30

\* The whole of runDecisionReasoning(attemptNumber) on the document `map`.
\* Result: threw (an error left the function), llm (askDecisionEngine was
\* called), map (the document afterwards).
runDecisionReasoning(map, attempt, resp) ==
    LET previousResults == Len(map.relevant_assets)
        realism == OrDefault(map.realism_score, 50)
        scarcity == OrDefault(map.market_availability_estimate, 50)
        userMedia == map.user_media
        ruled(final, confidence) ==
            [threw |-> FALSE, llm |-> FALSE, map |-> commit(map, final, confidence)]
    IN  IF map.user_prompt = <<>>
        THEN [threw |-> TRUE, llm |-> FALSE, map |-> map]
        ELSE IF mediaOverride(userMedia)
        THEN ruled("generate_with_model", IF userMedia.role = "transform" THEN 97 ELSE 95)
        ELSE IF retryOverride(attempt, previousResults)
        THEN ruled("generate_with_model", 95)
        ELSE IF scarcityOverride(scarcity)
        THEN ruled("generate_with_model", 90)
        ELSE IF obviousFetch(realism, scarcity)
        THEN ruled("fetch_from_web", 85)
        ELSE IF obviousGenerate(realism)
        THEN ruled("generate_with_model", 85)
        ELSE IF resp.kind = "throw"
        THEN [threw |-> TRUE, llm |-> TRUE, map |-> map]
        ELSE [threw |-> FALSE, llm |-> TRUE,
              map |-> commit(map, llmDecision(resp).final_decision,
                             llmDecision(resp).confidence)]

----------------------------------------------------------------------------
(* Stage 3: runFetchAssets and runGenerateWithFal *)

\* The providers runFetchAssets scrapes for a modality, in the order it
\* scrapes them (two of the image providers; the one active audio provider).
Sources(type) == IF type = "audio" THEN {"freesound"} ELSE {"pexels", "pixabay"}

Hashes == 1..NumHashes

\* A scraped item whose download succeeded: the provider and the content
\* (named by its sha256) its mediaUrl delivered.  A download that throws is
\* skipped by the loop and leaves no trace, so it is not listed.
ScrapedItems(type) == [source : Sources(type), hash : Hashes]

RECURSIVE Canonical(_, _)
\* Hash values are interchangeable names of file contents.  A listing of
\* contents is taken in canonical form: a content not in `used` is named by
\* the least unused value.
Canonical(hs, used) ==
    \/ hs = <<>>
    \/ /\ Head(hs) \in used \/ Head(hs) = Cardinality(used) + 1
       /\ Canonical(Tail(hs), used \cup {Head(hs)})

\* What one fetch pass collects: one query, the first provider's items, then
\* the second provider's.
ItemSeqsUpTo(type, max) ==
    {items \in UNION {[1..n -> ScrapedItems(type)] : n \in 0..max} :
        /\ \A i, j \in DOMAIN items :
              (i < j /\ items[i].source = "pixabay") => items[j].source = "pixabay"
        /\ Canonical([i \in DOMAIN items |-> items[i].hash], {})}

ItemSeqs(type) == ItemSeqsUpTo(type, MaxItems)

Asset(type, source, hash) ==
    [type |-> type, source |-> source, sha256 |-> hash, relevance_score |-> Undefined]

\* detectModality: an explicitly requested modality decides; without one the
\* modality of the extracted intent does, else "image".  The map's
\* requested_modality field holds the modality so resolved.
detectModality(map) == map.requested_modality

RECURSIVE fetchLoopPerProvider(_, _, _, _)
\* A loop that remembers what it has seen per provider.
fetchLoopPerProvider(items, type, seenHashes, metadata) ==
    IF items = <<>> THEN metadata
    ELSE LET item == Head(items)
         IN  IF <<item.source, item.hash>> \in seenHashes
             THEN fetchLoopPerProvider(Tail(items), type, seenHashes, metadata)
             ELSE fetchLoopPerProvider(Tail(items), type,
                                       seenHashes \cup {<<item.source, item.hash>>},
                                       Append(metadata, Asset(type, item.source, item.hash)))

RECURSIVE fetchLoop(_, _, _, _)
\* The for loop of fetchAndSave: seenHashes and metadata after items[i..].
fetchLoop(items, type, seenHashes, metadata) ==
    IF items = <<>> THEN metadata
    ELSE LET item == Head(items)
         IN  IF item.hash \in seenHashes
             THEN fetchLoop(Tail(items), type, seenHashes, metadata)
             ELSE fetchLoop(Tail(items), type, seenHashes \cup {item.hash},
                            Append(metadata, Asset(type, item.source, item.hash)))

fetchAndSave(items, type) == fetchLoop(items, type, {}, <<>>)

\* downloadToDir's file name: `${cleanSource}_${hash.slice(0, 12)}${ext}` in
\* the directory of the media type; provider and content name the file.
fileName(source, hash) == <<source, hash>>

RECURSIVE fetchFiles(_, _, _)
\* The files the loop of fetchAndSave leaves in the target directory:
\* downloadToDir writes the item's file unless it exists, and the loop
\* unlinks the file path of an item whose hash it has seen.
fetchFiles(items, seenHashes, files) ==
    IF items = <<>> THEN files
    ELSE LET item == Head(items)
             filePath == fileName(item.source, item.hash)
             written == files \cup {filePath}
         IN  IF item.hash \in seenHashes
             THEN fetchFiles(Tail(items), seenHashes, written \ {filePath})
             ELSE fetchFiles(Tail(items), seenHashes \cup {item.hash}, written)

NoFetch == [called |-> FALSE, items |-> <<>>, returned |-> <<>>, files |-> {}]

\* The record of one fetchAndSave call: the downloaded items in loop order,
\* the metadata it returned and the files it left on disk.
FetchRecord(items, type) ==
    [called |-> TRUE, items |-> items, returned |-> fetchAndSave(items, type),
     files |-> fetchFiles(items, {}, {})]

\* runFetchAssets on `map`; items = <<>> also stands for "no queries generated".
runFetchAssets(map, items) ==
    IF map.user_prompt = <<>>
    THEN [threw |-> TRUE, map |-> map]
    ELSE [threw |-> FALSE,
          map |-> [map EXCEPT !.fetched_assets =
                       map.fetched_assets \o fetchAndSave(items, detectModality(map))]]

\* The contents delivered by the generated URLs whose download succeeded (a
\* failed download is logged and skipped), given the contents already fetched.
GeneratedSeqs(fetched) ==
    {urls \in UNION {[1..n -> Hashes] : n \in 0..num_images} :
        Canonical(urls, {fetched[i].sha256 : i \in DOMAIN fetched})}

RECURSIVE newAssets(_, _)
\* The download loop of runGenerateWithFal: one asset per URL, no hash check.
newAssets(urls, type) ==
    IF urls = <<>> THEN <<>>
    ELSE <<Asset(type, "fal", Head(urls))>> \o newAssets(Tail(urls), type)

runGenerateWithFal(map, urls) ==
    IF map.user_prompt = <<>>
    THEN [threw |-> TRUE, map |-> map]
    ELSE [threw |-> FALSE,
          map |-> [map EXCEPT !.fetched_assets =
                       map.fetched_assets \o newAssets(urls, detectModality(map))]]

----------------------------------------------------------------------------
(* Stage 4: runRelevanceMatching, and runAssetClassification *)

ScoreValues == {MIN_SCORE - 1, MIN_SCORE}

\* The threshold a selection loop compares a score with: the audio loop and
\* the image/video loop name the same constant.
minScore(type) == MIN_SCORE

keepStrict(score) == score > MIN_SCORE

keep(score) == score >= MIN_SCORE

RECURSIVE selectRelevant(_, _, _)
\* The selection loops: assets[i] is pushed to finalRelevantAssets when its score passes.
selectRelevant(assets, scores, withScore) ==
    IF assets = <<>> THEN <<>>
    ELSE LET rest == selectRelevant(Tail(assets), Tail(scores), withScore)
         IN  IF keep(Head(scores))
             THEN <<IF withScore
                    THEN [Head(assets) EXCEPT !.relevance_score = Head(scores)]
                    ELSE Head(assets)>> \o rest
             ELSE rest

bypassScoringImg2ImgOnly(map) ==
    map.decision_reasoning.media_use_strategy = "img2img"

bypassScoring(map) ==
    map.decision_reasoning.media_use_strategy \in {"img2img", "style_transfer"}

\* Batches of the image / video loop: candidate i is sent with batch batchOf(i).
numBatches(n) == (n + BATCH_SIZE - 1) \div BATCH_SIZE

batchOf(i) == ((i - 1) \div BATCH_SIZE) + 1

\* scoreAudioByMetadata: the neutral 0.5 when the intent yields no token to
\* match, else the token overlap (with its query boost) of the asset.
scoreAudioByMetadata(hasTokens, overlap) == IF hasTokens THEN overlap ELSE 50

\* What the scoring service does during one runRelevanceMatching call.
\* items[i] is what it says of candidate i: ok with a score, or not ok.  On
\* the image / video path not ok means the candidate is not among the
\* results (no usable frame, index left out); failedBatch = b > 0 means the
\* call for batch b rejects or returns unparsable JSON.  On the audio path
\* not ok means the call for that candidate fails, and items[i].score is
\* then the token overlap the metadata heuristic finds; tokens tells whether
\* the extracted intent has any token.
ItemResponses == [ok : BOOLEAN, score : ScoreValues]

ImageItemResponses ==
    {r \in ItemResponses : r.ok \/ r.score = MIN_SCORE}

NoResponse == [items |-> <<>>, failedBatch |-> 0, tokens |-> FALSE]

usesAudioPath(map) ==
    /\ SelectSeq(map.fetched_assets, LAMBDA a : a.type \in {"image", "video"}) = <<>>
    /\ SelectSeq(map.fetched_assets, LAMBDA a : a.type = "audio") # <<>>

MatchResponses(map) ==
    LET n == Len(map.fetched_assets)
    IN  IF n = 0 \/ bypassScoring(map) THEN {NoResponse}
        ELSE IF usesAudioPath(map)
        THEN [items : [1..n -> ItemResponses], failedBatch : {0}, tokens : BOOLEAN]
        ELSE [items : [1..n -> ImageItemResponses], failedBatch : 0..numBatches(n),
              tokens : {FALSE}]

\* The responses the orchestrators' runs are explored with: every candidate
\* scored by the service.  (A failing call is a stage that throws.)
OrchestratorMatchResponses(map) ==
    LET n == Len(map.fetched_assets)
    IN  IF n = 0 \/ bypassScoring(map) THEN {NoResponse}
        ELSE [items : [1..n -> {r \in ItemResponses : r.ok}], failedBatch : {0},
              tokens : {FALSE}]

\* runRelevanceMatching on `map`.  Result: threw (an error left the
\* function), map (the document afterwards), calls (scoring-service calls
\* made), scores (the score each candidate got, Undefined for none),
\* fallback (the candidates scored by scoreAudioByMetadata).
runRelevanceMatching(map, resp) ==
    LET fetched == map.fetched_assets
        n == Len(fetched)
        mediaToScore == SelectSeq(fetched, LAMBDA a : a.type \in {"image", "video"})
        audioAssets == SelectSeq(fetched, LAMBDA a : a.type = "audio")
        none == [i \in 1..n |-> Undefined]
        done(m, c, sc, fb) == [threw |-> FALSE, map |-> m, calls |-> c,
                               scores |-> sc, fallback |-> fb]
        audioScores ==
            [i \in 1..n |-> IF resp.items[i].ok THEN resp.items[i].score
                            ELSE scoreAudioByMetadata(resp.tokens, resp.items[i].score)]
        failed == resp.failedBatch \in 1..numBatches(n)
        imageScores ==
            [i \in 1..n |-> IF failed /\ batchOf(i) >= resp.failedBatch THEN Undefined
                            ELSE IF resp.items[i].ok THEN resp.items[i].score
                            ELSE Undefined]
    IN  IF fetched = <<>> THEN done(map, 0, none, {})
        ELSE IF bypassScoring(map)
        THEN done([map EXCEPT !.relevant_assets = fetched], 0, none, {})
        ELSE IF mediaToScore = <<>>
        THEN done([map EXCEPT !.relevant_assets =
                        selectRelevant(audioAssets, audioScores, FALSE)],
                  n, audioScores, {i \in 1..n : ~resp.items[i].ok})
        ELSE IF failed
        THEN [threw |-> TRUE, map |-> map, calls |-> resp.failedBatch,
              scores |-> imageScores, fallback |-> {}]
        ELSE done([map EXCEPT !.relevant_assets =
                        selectRelevant(mediaToScore, imageScores, TRUE)],
                  numBatches(n), imageScores, {})

NoMatch == [called |-> FALSE, threw |-> FALSE, calls |-> 0, scores |-> <<>>,
            fallback |-> {}, failedBatch |-> 0, tokens |-> FALSE]

\* History of one runRelevanceMatching call.
MatchRecord(r, resp) ==
    [called |-> TRUE, threw |-> r.threw, calls |-> r.calls, scores |-> r.scores,
     fallback |-> r.fallback, failedBatch |-> IF r.threw THEN resp.failedBatch ELSE 0,
     tokens |-> IF r.fallback # {} THEN resp.tokens ELSE FALSE]

\* runAssetClassification attaches a classification to each relevant asset
\* and writes `results`; relevant_assets keeps its elements.
runAssetClassification(map) == map

\* The runAssetClassification that ends with `delete semanticMap.fetched_assets;
\* delete semanticMap.relevant_assets` before it writes the document (a
\* deleted list reads back as empty); without relevant assets it returns at
\* once and writes nothing.
runAssetClassificationResults(map) ==
    IF map.relevant_assets = <<>> THEN map
    ELSE [map EXCEPT !.fetched_assets = <<>>, !.relevant_assets = <<>>]

----------------------------------------------------------------------------
(* The orchestrator: runOrchestrator of index.ts *)

LoopContinuesOffByOne(a, s) == a <= MAX_RETRIES + 1 /\ ~s

\* while (attempts <= MAX_RETRIES && !satisfied)
LoopContinues(a, s) == a <= MAX_RETRIES /\ ~s

satisfactionThresholdLow(isTransformRun) == IF isTransformRun THEN 1 ELSE 2

\* const satisfactionThreshold = isTransformRun ? 1 : 3
satisfactionThreshold(isTransformRun) == IF isTransformRun THEN 1 ELSE 3

isTransformRun(role) == role \in {"transform", "style_guide"}

isSatisfiedThresholdOnly(count, role) ==
    count >= satisfactionThreshold(isTransformRun(role))

\* The if / else-if / else of the satisfaction criteria.
isSatisfied(count, role) ==
    \/ count >= satisfactionThreshold(isTransformRun(role))
    \/ isTransformRun(role)

\* currentPrompt = `highly detailed cinematic professional stock ${initialPrompt}`
strengthen(prompt) == StrengthenPrefix \o prompt

caughtAttemptsStuck(a) == a

\* attempts++ of the catch block
caughtAttempts(a) == a + 1

NextPcRaising(a, s) ==
    IF LoopContinues(a, s) THEN "stage1"
    ELSE IF s THEN "finalize" ELSE "crashed"

\* Where control goes once an attempt has ended with `a` attempts counted
\* and satisfaction `s`: the next loop body, the metrics block, or the
\* "not met within retry limit" report.
NextPc(a, s) ==
    IF LoopContinues(a, s) THEN "stage1"
    ELSE IF s THEN "finalize" ELSE "exhausted"

afterFetchUnscored(final) ==
    IF final = "hybrid_fetch_and_enhance" THEN "generate" ELSE "classify"

\* After runFetchAssets: runGenerateWithFal for a hybrid decision, then in
\* every case runRelevanceMatching.
afterFetch(final) ==
    IF final = "hybrid_fetch_and_enhance" THEN "generate" ELSE "relevance"

\* The execution phase's branch: generation alone, or fetching first.
afterDecision(final) ==
    IF final = "generate_with_model" THEN "generate" ELSE "fetch"

TryStages == {"stage1", "stage2", "read", "fetch", "generate", "relevance",
              "classify", "evaluate"}

NoDecide == [called |-> FALSE, previousResults |-> 0, llm |-> FALSE, threw |-> FALSE,
             response |-> "none"]

\* History of one runDecisionReasoning call on `map`: the previous-result
\* count it read, whether it called askDecisionEngine and what came back,
\* whether an error left it.
DecideRecord(map, r, resp) ==
    [called |-> TRUE, previousResults |-> Len(map.relevant_assets),
     llm |-> r.llm, threw |-> r.threw,
     response |-> IF r.llm THEN resp.kind ELSE "none"]

\* main(): the media file's modality (or none) and the modality the refiner detected.
RunInputs == {<<"none", "image">>, <<"none", "audio">>,
              <<"image", "image">>, <<"audio", "audio">>}

InitialPrompts == {<<>>, <<"castle">>}

Init ==
    /\ \E in \in RunInputs : mediaContext = in[1] /\ requestedModality = in[2]
       \* main(): with a media file the raw prompt is kept and the refined one
       \* is appended in brackets; without, the refiner's prompt is passed on.
    /\ initialPrompt \in IF mediaContext = "none" THEN InitialPrompts
                         ELSE {<<"castle", UserInstruction>>}
    /\ currentPrompt = initialPrompt
    /\ attempts = 0
    /\ satisfied = FALSE
    /\ pc = "stage1"
    /\ passes = 1
    /\ decision = ""
    /\ resolvedRole = "none"
    /\ semanticMap = NoMap
    /\ attemptNumber = 1
    /\ outcomes = <<>>
    /\ lastDecide = NoDecide
    /\ lastMatch = NoMatch
    /\ lastFetch = NoFetch
    /\ propagated = FALSE
    /\ server = NoServer

\* History bookkeeping (saturating, so that the histories stay finite).
Started(p, nextPc) == IF nextPc = "stage1" /\ p < HistoryCap THEN p + 1 ELSE p

Record(o, kind) ==
    IF Len(o) < HistoryCap THEN Append(o, kind) ELSE Append(Tail(o), kind)

\* The try block encloses every stage call of the loop body.
tryCovers(stage) == stage \in TryStages

\* The catch block: the error ends the attempt.
Catch(stage) ==
    /\ attempts' = caughtAttempts(attempts)
    /\ pc' = NextPc(attempts', satisfied)
    /\ passes' = Started(passes, pc')
    /\ outcomes' = Record(outcomes, "error")
    /\ UNCHANGED <<initialPrompt, mediaContext, requestedModality, currentPrompt,
                   satisfied, decision, resolvedRole, attemptNumber, propagated>>

\* An error no try block encloses leaves the orchestrator and reaches its caller.
Propagate ==
    /\ propagated' = TRUE
    /\ pc' = "crashed"
    /\ outcomes' = Record(outcomes, "error")
    /\ UNCHANGED <<initialPrompt, mediaContext, requestedModality, currentPrompt,
                   attempts, satisfied, decision, resolvedRole, attemptNumber,
                   passes>>

Raise(stage) == IF tryCovers(stage) THEN Catch(stage) ELSE Propagate

\* Any awaited call in the try block may fail for an external reason
\* (network, file system); nothing is written by the failed call.
StageThrows ==
    /\ pc \in TryStages \ {"evaluate"}
    /\ Raise(pc)
    /\ UNCHANGED <<semanticMap, lastDecide, lastMatch, lastFetch>>
    /\ UNCHANGED server

PromptUnderstanding ==
    /\ pc = "stage1"
    /\ \E parsed \in Stage1Responses :
         semanticMap' = runPromptUnderstanding(currentPrompt, requestedModality,
                                               mediaContext, parsed)
    /\ attemptNumber' = attempts + 1
    /\ lastDecide' = NoDecide
    /\ lastMatch' = NoMatch
    /\ lastFetch' = NoFetch
    /\ pc' = "stage2"
    /\ UNCHANGED <<initialPrompt, mediaContext, requestedModality, currentPrompt,
                   attempts, satisfied, decision, resolvedRole, passes, outcomes,
                   propagated>>
    /\ UNCHANGED server

DecisionReasoning ==
    /\ pc = "stage2"
    /\ \E resp \in DecisionResponses :
         LET r == runDecisionReasoning(semanticMap, attemptNumber, resp)
         IN  /\ lastDecide' = DecideRecord(semanticMap, r, resp)
             /\ UNCHANGED <<lastMatch, lastFetch>>
             /\ semanticMap' = r.map
             /\ IF r.threw
                THEN Raise("stage2")
                ELSE /\ pc' = "read"
                     /\ UNCHANGED <<initialPrompt, mediaContext, requestedModality,
                                    currentPrompt, attempts, satisfied, decision,
                                    resolvedRole, attemptNumber, passes, outcomes,
                                    propagated>>
    /\ UNCHANGED server

\* Lines 56-89: read the decision and the role back, pick the branch.
ReadDecision ==
    /\ pc = "read"
    /\ decision' = semanticMap.decision_reasoning.final_decision
    /\ resolvedRole' = semanticMap.user_media.role
    /\ pc' = afterDecision(decision')
    /\ UNCHANGED <<initialPrompt, mediaContext, requestedModality, currentPrompt,
                   attempts, satisfied, semanticMap, attemptNumber, passes,
                   outcomes, lastDecide, lastMatch, lastFetch, propagated>>
    /\ UNCHANGED server

FetchAssets ==
    /\ pc = "fetch"
    /\ \E items \in ItemSeqs(detectModality(semanticMap)) :
         LET r == runFetchAssets(semanticMap, items)
         IN  /\ semanticMap' = r.map
             /\ lastFetch' = IF r.threw THEN lastFetch
                             ELSE FetchRecord(items, detectModality(semanticMap))
             /\ IF r.threw
                THEN Raise("fetch")
                ELSE /\ pc' = afterFetch(decision)
                     /\ UNCHANGED <<initialPrompt, mediaContext, requestedModality,
                                    currentPrompt, attempts, satisfied, decision,
                                    resolvedRole, attemptNumber, passes, outcomes,
                                    propagated>>
    /\ UNCHANGED <<lastDecide, lastMatch>>
    /\ UNCHANGED server

GenerateWithFal ==
    /\ pc = "generate"
    /\ \E urls \in GeneratedSeqs(semanticMap.fetched_assets) :
         LET r == runGenerateWithFal(semanticMap, urls)
         IN  /\ semanticMap' = r.map
             /\ IF r.threw
                THEN Raise("generate")
                ELSE /\ pc' = "relevance"
                     /\ UNCHANGED <<initialPrompt, mediaContext, requestedModality,
                                    currentPrompt, attempts, satisfied, decision,
                                    resolvedRole, attemptNumber, passes, outcomes,
                                    propagated>>
    /\ UNCHANGED <<lastDecide, lastMatch, lastFetch>>
    /\ UNCHANGED server

RelevanceMatching ==
    /\ pc = "relevance"
    /\ \E resp \in OrchestratorMatchResponses(semanticMap) :
         LET r == runRelevanceMatching(semanticMap, resp)
         IN  /\ semanticMap' = r.map
             /\ lastMatch' = MatchRecord(r, resp)
             /\ UNCHANGED lastFetch
             /\ IF r.threw
                THEN Raise("relevance")
                ELSE /\ pc' = "classify"
                     /\ UNCHANGED <<initialPrompt, mediaContext, requestedModality,
                                    currentPrompt, attempts, satisfied, decision,
                                    resolvedRole, attemptNumber, passes, outcomes,
                                    propagated>>
    /\ UNCHANGED lastDecide
    /\ UNCHANGED server

AssetClassification ==
    /\ pc = "classify"
    /\ semanticMap' = runAssetClassification(semanticMap)
    /\ pc' = "evaluate"
    /\ UNCHANGED <<initialPrompt, mediaContext, requestedModality, currentPrompt,
                   attempts, satisfied, decision, resolvedRole, attemptNumber,
                   passes, outcomes, lastDecide, lastMatch, lastFetch, propagated>>
    /\ UNCHANGED server

\* Lines 94-122: read the map back and apply the satisfaction criteria.
Evaluate ==
    /\ pc = "evaluate"
    /\ LET count == Len(semanticMap.relevant_assets)
       IN  /\ satisfied' = isSatisfied(count, resolvedRole)
           /\ attempts' = IF satisfied' THEN attempts ELSE attempts + 1
           /\ currentPrompt' = IF satisfied' THEN currentPrompt
                               ELSE strengthen(initialPrompt)
           /\ outcomes' = Record(outcomes,
                  IF satisfied' THEN "accepted" ELSE "insufficient")
    /\ pc' = NextPc(attempts', satisfied')
    /\ passes' = Started(passes, pc')
    /\ UNCHANGED <<initialPrompt, mediaContext, requestedModality, decision,
                   resolvedRole, semanticMap, attemptNumber, lastDecide, lastMatch, lastFetch, propagated>>
    /\ UNCHANGED server

\* Lines 136-168: the metrics block; its own try/catch swallows every error.
Finalize ==
    /\ pc = "finalize"
    /\ pc' = "accepted"
    /\ UNCHANGED <<initialPrompt, mediaContext, requestedModality, currentPrompt,
                   attempts, satisfied, decision, resolvedRole, semanticMap,
                   attemptNumber, passes, outcomes, lastDecide, lastMatch, lastFetch, propagated>>
    /\ UNCHANGED server

Next ==
    \/ PromptUnderstanding
    \/ DecisionReasoning
    \/ ReadDecision
    \/ FetchAssets
    \/ GenerateWithFal
    \/ RelevanceMatching
    \/ AssetClassification
    \/ Evaluate
    \/ StageThrows
    \/ Finalize

Spec == Init /\ [][Next]_vars

\* Every awaited stage call eventually returns or raises.
FairSpec == Spec /\ WF_vars(Next)

----------------------------------------------------------------------------
(* runOrchestrator of src/index.ts without user media.  Two files of the   *)
(* repository present themselves as src/pipeline/assetClassifier.ts, the   *)
(* module index.ts imports runAssetClassification from; the classification *)
(* stage is the one or the other.                                          *)

InitIndex ==
    /\ Init
    /\ mediaContext = "none"

AssetClassificationResults ==
    /\ pc = "classify"
    /\ semanticMap' = runAssetClassificationResults(semanticMap)
    /\ pc' = "evaluate"
    /\ UNCHANGED <<initialPrompt, mediaContext, requestedModality, currentPrompt,
                   attempts, satisfied, decision, resolvedRole, attemptNumber,
                   passes, outcomes, lastDecide, lastMatch, lastFetch, propagated>>
    /\ UNCHANGED server

NextIndex ==
    \/ PromptUnderstanding
    \/ DecisionReasoning
    \/ ReadDecision
    \/ FetchAssets
    \/ GenerateWithFal
    \/ RelevanceMatching
    \/ AssetClassification
    \/ AssetClassificationResults
    \/ Evaluate
    \/ StageThrows
    \/ Finalize

SpecIndex == InitIndex /\ [][NextIndex]_vars

----------------------------------------------------------------------------
(* runDecisionReasoning called directly on a document (HELMER_MODE=stage1,  *)
(* runUserMediaWorkflow): the Decision Engine as a function of its inputs.  *)

DecideRealism == {Undefined, 29, 30, 31, 80, 81}

DecideAvailability == {Undefined, 29, 30, 31, 70, 71}

DecideUserMedia ==
    {NoUserMedia} \cup
    [provided : {TRUE}, role : Roles \cup {"other"}, modality : Modalities]

PreviousAssets == UNION {[1..n -> {Asset("image", "pexels", 1)}] : n \in 0..MaxPrevious}

DecideMaps ==
    {[NoMap EXCEPT !.exists = TRUE, !.user_prompt = p, !.realism_score = r,
                   !.market_availability_estimate = a, !.user_media = um,
                   !.relevant_assets = prev] :
        p \in InitialPrompts, r \in DecideRealism, a \in DecideAvailability,
        um \in DecideUserMedia, prev \in PreviousAssets}

InitDecide ==
    /\ pc = "decide"
    /\ semanticMap \in DecideMaps
    /\ attemptNumber \in 1..MaxAttemptNumber
    /\ mediaContext = semanticMap.user_media.modality
    /\ requestedModality = "image"
    /\ initialPrompt = semanticMap.user_prompt
    /\ currentPrompt = initialPrompt
    /\ attempts = 0
    /\ satisfied = FALSE
    /\ passes = 0
    /\ decision = ""
    /\ resolvedRole = "none"
    /\ outcomes = <<>>
    /\ lastDecide = NoDecide
    /\ lastMatch = NoMatch
    /\ lastFetch = NoFetch
    /\ propagated = FALSE
    /\ server = NoServer

Decide ==
    /\ pc = "decide"
    /\ \E resp \in DecisionResponses :
         LET r == runDecisionReasoning(semanticMap, attemptNumber, resp)
         IN  /\ lastDecide' = DecideRecord(semanticMap, r, resp)
             /\ UNCHANGED <<lastMatch, lastFetch>>
             /\ semanticMap' = r.map
             /\ pc' = IF r.threw THEN "decide_threw" ELSE "decided"
    /\ UNCHANGED <<initialPrompt, mediaContext, requestedModality, currentPrompt,
                   attempts, satisfied, decision, resolvedRole, attemptNumber,
                   passes, outcomes, propagated>>
    /\ UNCHANGED server

NextDecide == Decide

SpecDecide == InitDecide /\ [][NextDecide]_vars

----------------------------------------------------------------------------
(* runRelevanceMatching called directly on a document: the relevance stage  *)
(* as a function of the candidates, the committed media strategy and what   *)
(* the scoring service answers.                                             *)

MatchStrategies(type) ==
    IF type = "audio" THEN {"none", "context_only", "audio_reference", "style_transfer"}
    ELSE {"none", "context_only", "img2img", "style_transfer"}

\* The role whose decision carries the strategy (resolveMediaStrategy read backwards).
roleOfStrategy(strategy) ==
    CASE strategy \in {"img2img", "audio_reference"} -> "transform"
      [] strategy = "style_transfer" -> "style_guide"
      [] OTHER -> "reference"

Candidates(type, n) == [i \in 1..n |-> Asset(type, "fal", i)]

MatchMap(type, st, n) ==
    [NoMap EXCEPT
        !.exists = TRUE, !.user_prompt = <<"castle">>, !.requested_modality = type,
        !.user_media = IF st = "none" THEN NoUserMedia
                       ELSE [provided |-> TRUE, role |-> roleOfStrategy(st),
                             modality |-> type],
        !.decision_reasoning =
            [present |-> TRUE, final_decision |-> "generate_with_model",
             confidence |-> 95, has_user_media |-> st # "none",
             media_use_strategy |-> st,
             user_asset_path |-> st \in {"img2img", "audio_reference"}],
        !.fetched_assets = Candidates(type, n)]

MatchCases ==
    {c \in Modalities \X (MatchStrategies("image") \cup MatchStrategies("audio"))
             \X (0..MaxCandidates) :
        /\ c[2] \in MatchStrategies(c[1])
        /\ c[1] = "audio" => c[3] <= MaxAudioCandidates}

MatchMaps == {MatchMap(c[1], c[2], c[3]) : c \in MatchCases}

InitMatch ==
    /\ pc = "match"
    /\ semanticMap \in MatchMaps
    /\ requestedModality = semanticMap.requested_modality
    /\ mediaContext = semanticMap.user_media.modality
    /\ initialPrompt = semanticMap.user_prompt
    /\ currentPrompt = initialPrompt
    /\ attempts = 0
    /\ satisfied = FALSE
    /\ passes = 0
    /\ decision = ""
    /\ resolvedRole = "none"
    /\ attemptNumber = 1
    /\ outcomes = <<>>
    /\ lastDecide = NoDecide
    /\ lastMatch = NoMatch
    /\ lastFetch = NoFetch
    /\ propagated = FALSE
    /\ server = NoServer

Match ==
    /\ pc = "match"
    /\ \E resp \in MatchResponses(semanticMap) :
         LET r == runRelevanceMatching(semanticMap, resp)
         IN  /\ semanticMap' = r.map
             /\ lastMatch' = MatchRecord(r, resp)
             /\ UNCHANGED lastFetch
             /\ pc' = IF r.threw THEN "match_threw" ELSE "matched"
    /\ UNCHANGED <<initialPrompt, mediaContext, requestedModality, currentPrompt,
                   attempts, satisfied, decision, resolvedRole, attemptNumber,
                   passes, outcomes, lastDecide, propagated>>
    /\ UNCHANGED server

NextMatch == Match

SpecMatch == InitMatch /\ [][NextMatch]_vars

----------------------------------------------------------------------------
(* The API server: each run-pipeline request spawns a child process that   *)
(* runs index.ts in the server's directory, so that every child reads and  *)
(* writes the same data/semantic_map.json.                                 *)

Children == 1..MaxRequests

\* The stage calls of a loop body that write the document.  Stage 1 writes a
\* fresh object without reading; each later stage reads the document with
\* readJson, awaits its service calls, changes the object it read and writes
\* the whole object back with writeJson.
ChildStages == <<"stage1", "stage2", "execute", "relevance", "classify">>

\* A child process: `at` = 0 before the request, i for ChildStages[i]
\* pending, Len(ChildStages) + 1 for the evaluation, and beyond that exited;
\* `holding` while a stage is between its readJson and its writeJson, `copy`
\* the object it read.
NoChild == [at |-> 0, attempts |-> 0, holding |-> FALSE, copy |-> NoFile]

InitServer ==
    /\ pc = "server"
    /\ semanticMap = NoMap
    /\ requestedModality = "image"
    /\ mediaContext = "none"
    /\ initialPrompt = <<"castle">>
    /\ currentPrompt = initialPrompt
    /\ attempts = 0
    /\ satisfied = FALSE
    /\ passes = 0
    /\ decision = ""
    /\ resolvedRole = "none"
    /\ attemptNumber = 1
    /\ outcomes = <<>>
    /\ lastDecide = NoDecide
    /\ lastMatch = NoMatch
    /\ lastFetch = NoFetch
    /\ propagated = FALSE
    /\ server = [file |-> NoFile, children |-> [c \in Children |-> NoChild],
                 lost |-> FALSE]

ServerUnchanged ==
    UNCHANGED <<pc, initialPrompt, mediaContext, requestedModality, currentPrompt,
                attempts, satisfied, decision, resolvedRole, semanticMap,
                attemptNumber, passes, outcomes, lastDecide, lastMatch, lastFetch,
                propagated>>

\* The run-pipeline handler: spawn the child at once, whatever else runs.
RunPipeline ==
    /\ \E c \in Children :
         /\ server.children[c].at = 0
         /\ server' = [server EXCEPT !.children[c].at = 1]
    /\ ServerUnchanged

\* runPromptUnderstanding in a child: writeJson of a fresh object.
ChildPromptUnderstanding ==
    /\ \E c \in Children :
         /\ server.children[c].at = 1
         /\ server' = [server EXCEPT !.file = [writer |-> c, updates |-> {}],
                                     !.children[c].at = 2]
    /\ ServerUnchanged

\* The readJson at the top of a stage.
ChildReads ==
    /\ \E c \in Children :
         /\ server.children[c].at \in 2..Len(ChildStages)
         /\ ~server.children[c].holding
         /\ server' = [server EXCEPT !.children[c].holding = TRUE,
                                     !.children[c].copy = server.file]
    /\ ServerUnchanged

\* The writeJson at the end of a stage: the object read, with the stage's
\* result, replaces the file; an update made since the read is lost.
ChildWrites ==
    /\ \E c \in Children :
         LET child == server.children[c]
         IN  /\ child.holding
             /\ server' =
                   [server EXCEPT
                      !.file = [child.copy EXCEPT
                                  !.updates = @ \cup {<<c, ChildStages[child.at]>>}],
                      !.lost = @ \/ server.file # child.copy,
                      !.children[c].holding = FALSE,
                      !.children[c].copy = NoFile,
                      !.children[c].at = child.at + 1]
    /\ ServerUnchanged

\* The satisfaction evaluation of a child: satisfied (the loop ends, the
\* process exits) or not (attempts++, and the loop goes on while it may).
ChildEvaluates ==
    /\ \E c \in Children, s \in BOOLEAN :
         LET child == server.children[c]
             a == IF s THEN child.attempts ELSE child.attempts + 1
         IN  /\ child.at = Len(ChildStages) + 1
             /\ server' = [server EXCEPT
                              !.children[c].attempts = a,
                              !.children[c].at = IF LoopContinues(a, s) THEN 1
                                                 ELSE Len(ChildStages) + 2]
    /\ ServerUnchanged

NextServer ==
    \/ RunPipeline
    \/ ChildPromptUnderstanding
    \/ ChildReads
    \/ ChildWrites
    \/ ChildEvaluates

SpecServer == InitServer /\ [][NextServer]_vars

----------------------------------------------------------------------------
(* runFetchAssets called directly on a prepared document *)

\* The document before the pass: any prompt and modality, with or without an
\* asset left by an earlier pass.
FetchMap(prompt, type, n) ==
    [NoMap EXCEPT
        !.exists = TRUE, !.user_prompt = prompt, !.requested_modality = type,
        !.fetched_assets = [i \in 1..n |-> Asset(type, "fal", i)]]

FetchMaps ==
    {FetchMap(prompt, type, n) :
        prompt \in InitialPrompts, type \in Modalities, n \in 0..MaxPrevious}

InitFetch ==
    /\ pc = "fetch_direct"
    /\ semanticMap \in FetchMaps
    /\ requestedModality = semanticMap.requested_modality
    /\ mediaContext = "none"
    /\ initialPrompt = semanticMap.user_prompt
    /\ currentPrompt = initialPrompt
    /\ attempts = 0
    /\ satisfied = FALSE
    /\ passes = 0
    /\ decision = ""
    /\ resolvedRole = "none"
    /\ attemptNumber = 1
    /\ outcomes = <<>>
    /\ lastDecide = NoDecide
    /\ lastMatch = NoMatch
    /\ lastFetch = NoFetch
    /\ propagated = FALSE
    /\ server = NoServer

Fetch ==
    /\ pc = "fetch_direct"
    /\ \E items \in ItemSeqsUpTo(detectModality(semanticMap), MaxFetchItems) :
         LET r == runFetchAssets(semanticMap, items)
         IN  /\ semanticMap' = r.map
             /\ lastFetch' = IF r.threw THEN lastFetch
                             ELSE FetchRecord(items, detectModality(semanticMap))
             /\ pc' = IF r.threw THEN "fetch_threw" ELSE "fetched"
    /\ UNCHANGED <<initialPrompt, mediaContext, requestedModality, currentPrompt,
                   attempts, satisfied, decision, resolvedRole, attemptNumber,
                   passes, outcomes, lastDecide, lastMatch, propagated>>
    /\ UNCHANGED server

NextFetch == Fetch

SpecFetch == InitFetch /\ [][NextFetch]_vars

----------------------------------------------------------------------------
(* The orchestrator of pipeline/orchestrator.ts: runAgenticWorkflow.  It    *)
(* takes a prompt only (no media, no requested modality), always fetches,   *)
(* and has no try block around its stages.                                  *)

\* `high quality detailed cinematic footage of ${initialPrompt}, professional stock style`
workflowStrengthen(prompt) ==
    <<"high", "quality", "detailed", "cinematic", "footage", "of">> \o prompt
        \o <<"professional", "stock", "style">>

WorkflowNextPc(a, s) ==
    IF LoopContinues(a, s) THEN "w_clear"
    ELSE IF s THEN "accepted" ELSE "exhausted"

WorkflowStages == {"w_clear", "w_stage1", "w_stage2", "w_fetch", "w_relevance", "w_evaluate"}

InitWorkflow ==
    /\ initialPrompt \in InitialPrompts
    /\ mediaContext = "none"
    /\ requestedModality \in Modalities
    /\ currentPrompt = initialPrompt
    /\ attempts = 0
    /\ satisfied = FALSE
    /\ pc = "w_clear"
    /\ passes = 1
    /\ decision = ""
    /\ resolvedRole = "none"
    /\ semanticMap = NoMap
    /\ attemptNumber = 1
    /\ outcomes = <<>>
    /\ lastDecide = NoDecide
    /\ lastMatch = NoMatch
    /\ lastFetch = NoFetch
    /\ propagated = FALSE
    /\ server = NoServer

\* Lines 21-26: clear the previous attempt's fetched assets.
WorkflowClear ==
    /\ pc = "w_clear"
    /\ semanticMap' = IF semanticMap.exists
                      THEN [semanticMap EXCEPT !.fetched_assets = <<>>]
                      ELSE semanticMap
    /\ pc' = "w_stage1"
    /\ UNCHANGED <<initialPrompt, mediaContext, requestedModality, currentPrompt,
                   attempts, satisfied, decision, resolvedRole, attemptNumber,
                   passes, outcomes, lastDecide, lastMatch, lastFetch, propagated>>
    /\ UNCHANGED server

WorkflowPromptUnderstanding ==
    /\ pc = "w_stage1"
    /\ \E parsed \in Stage1Responses :
         semanticMap' = runPromptUnderstanding(currentPrompt, requestedModality,
                                               "none", parsed)
    /\ lastDecide' = NoDecide
    /\ lastMatch' = NoMatch
    /\ lastFetch' = NoFetch
    /\ pc' = "w_stage2"
    /\ UNCHANGED <<initialPrompt, mediaContext, requestedModality, currentPrompt,
                   attempts, satisfied, decision, resolvedRole, attemptNumber,
                   passes, outcomes, propagated>>
    /\ UNCHANGED server

\* runDecisionReasoning() is called without an argument: attemptNumber = 1.
WorkflowDecisionReasoning ==
    /\ pc = "w_stage2"
    /\ \E resp \in DecisionResponses :
         LET r == runDecisionReasoning(semanticMap, 1, resp)
         IN  /\ lastDecide' = DecideRecord(semanticMap, r, resp)
             /\ UNCHANGED <<lastMatch, lastFetch>>
             /\ semanticMap' = r.map
             /\ IF r.threw
                THEN Propagate
                ELSE /\ pc' = "w_fetch"
                     /\ UNCHANGED <<initialPrompt, mediaContext, requestedModality,
                                    currentPrompt, attempts, satisfied, decision,
                                    resolvedRole, attemptNumber, passes, outcomes,
                                    propagated>>
    /\ UNCHANGED server

WorkflowFetchAssets ==
    /\ pc = "w_fetch"
    /\ \E items \in ItemSeqs(detectModality(semanticMap)) :
         LET r == runFetchAssets(semanticMap, items)
         IN  /\ semanticMap' = r.map
             /\ lastFetch' = IF r.threw THEN lastFetch
                             ELSE FetchRecord(items, detectModality(semanticMap))
             /\ IF r.threw
                THEN Propagate
                ELSE /\ pc' = "w_relevance"
                     /\ UNCHANGED <<initialPrompt, mediaContext, requestedModality,
                                    currentPrompt, attempts, satisfied, decision,
                                    resolvedRole, attemptNumber, passes, outcomes,
                                    propagated>>
    /\ UNCHANGED <<lastDecide, lastMatch>>
    /\ UNCHANGED server

WorkflowRelevanceMatching ==
    /\ pc = "w_relevance"
    /\ \E resp \in OrchestratorMatchResponses(semanticMap) :
         LET r == runRelevanceMatching(semanticMap, resp)
         IN  /\ semanticMap' = r.map
             /\ lastMatch' = MatchRecord(r, resp)
             /\ UNCHANGED lastFetch
             /\ IF r.threw
                THEN Propagate
                ELSE /\ pc' = "w_evaluate"
                     /\ UNCHANGED <<initialPrompt, mediaContext, requestedModality,
                                    currentPrompt, attempts, satisfied, decision,
                                    resolvedRole, attemptNumber, passes, outcomes,
                                    propagated>>
    /\ UNCHANGED lastDecide
    /\ UNCHANGED server

\* Lines 34-49: the evaluation step.
WorkflowEvaluate ==
    /\ pc = "w_evaluate"
    /\ LET relevantCount == Len(semanticMap.relevant_assets)
       IN  /\ satisfied' = (relevantCount >= 3)
           /\ attempts' = IF satisfied' THEN attempts ELSE attempts + 1
           /\ currentPrompt' = IF satisfied' THEN currentPrompt
                               ELSE workflowStrengthen(initialPrompt)
           /\ outcomes' = Record(outcomes,
                  IF satisfied' THEN "accepted" ELSE "insufficient")
    /\ pc' = WorkflowNextPc(attempts', satisfied')
    /\ passes' = IF pc' = "w_clear" /\ passes < HistoryCap THEN passes + 1 ELSE passes
    /\ UNCHANGED <<initialPrompt, mediaContext, requestedModality, decision,
                   resolvedRole, semanticMap, attemptNumber, lastDecide, lastMatch, lastFetch, propagated>>
    /\ UNCHANGED server

\* Any awaited call of the loop body may fail for an external reason; no
\* try block encloses it.
WorkflowStageThrows ==
    /\ pc \in WorkflowStages \ {"w_evaluate"}
    /\ Propagate
    /\ UNCHANGED <<semanticMap, lastDecide, lastMatch, lastFetch>>
    /\ UNCHANGED server

NextWorkflow ==
    \/ WorkflowClear
    \/ WorkflowPromptUnderstanding
    \/ WorkflowDecisionReasoning
    \/ WorkflowFetchAssets
    \/ WorkflowRelevanceMatching
    \/ WorkflowEvaluate
    \/ WorkflowStageThrows

SpecWorkflow == InitWorkflow /\ [][NextWorkflow]_vars

----------------------------------------------------------------------------
(* Properties *)

Last(seq) == seq[Len(seq)]

Range(seq) == {seq[i] : i \in DOMAIN seq}

\* An attempt has just ended by its satisfaction evaluation: the document
\* and the loop's locals are still those the evaluation read.
JustEvaluated ==
    /\ outcomes # <<>>
    /\ Last(outcomes) \in {"accepted", "insufficient"}
    /\ pc \in {"stage1", "exhausted", "finalize"}

\* C1: whatever the stage outcomes (accepted, insufficient results, stage
\* error), a run starts at most 3 passes through the pipeline; a fourth pass
\* is never started.
C1_AtMostThreeAttempts == passes <= 3

C1_Witness ==
    /\ pc = "exhausted"
    /\ passes = 3
    /\ Range(outcomes) = {"error", "insufficient"}

\* C2: provided every stage call eventually returns or raises, every run
\* eventually settles in exactly one of the two terminal outcomes, accepted
\* or exhausted, and stays there; it neither loops forever nor ends elsewhere.
C2_EndsAcceptedOrExhausted == <>[](pc = "accepted") \/ <>[](pc = "exhausted")

C2_Witness == pc = "accepted" /\ Len(outcomes) = 2

\* C3: when three consecutive attempts each end with insufficient relevant
\* assets, the run is in the exhausted outcome after exactly 3 passes, and no
\* error has left the orchestrator.
C3_ThreeInsufficientExhausts ==
    outcomes = <<"insufficient", "insufficient", "insufficient">>
        => (pc = "exhausted" /\ passes = 3 /\ ~propagated)

C3_Witness ==
    /\ outcomes = <<"insufficient", "insufficient", "insufficient">>
    /\ pc = "exhausted"
    /\ semanticMap.relevant_assets = <<>>

C5_TransformAlwaysAccepted ==
    (JustEvaluated /\ resolvedRole \in {"transform", "style_guide"}) =>
        (Last(outcomes) = "accepted" /\ satisfied /\ pc = "finalize")

C5_Witness ==
    /\ pc = "finalize"
    /\ resolvedRole = "transform"
    /\ semanticMap.relevant_assets = <<>>
    /\ semanticMap.fetched_assets # <<>>

\* The number of attempts that ended without acceptance.
Failed(o) == Cardinality({i \in DOMAIN o : o[i] # "accepted"})

\* C6: an unexpected error raised by a stage inside an attempt is caught by
\* the orchestrator: it ends the attempt, the attempt counter goes up by
\* exactly one for it (the counter equals the number of attempts that ended
\* by an error or insufficient results), the run stays inside its loop, and
\* the error never reaches the caller of the run.
C6_StageErrorsCaught ==
    /\ ~propagated
    /\ pc # "crashed"
    /\ attempts = Failed(outcomes)

\* C7: a configuration failure (the Decision Engine finds no user prompt in
\* the document) aborts the run at once: no further pass is started and the
\* attempt counter is not incremented.
C7_ConfigFailureAborts ==
    (lastDecide.called /\ lastDecide.threw /\ semanticMap.user_prompt = <<>>)
        => (pc \notin TryStages /\ attempts = 0 /\ passes = 1)

\* The inputs the last Decision Engine call read from the document.
DecidedOn ==
    /\ lastDecide.called
    /\ semanticMap.user_prompt # <<>>

Realism == OrDefault(semanticMap.realism_score, 50)

Availability == OrDefault(semanticMap.market_availability_estimate, 50)

Committed(final) ==
    /\ ~lastDecide.threw
    /\ semanticMap.decision_reasoning.present
    /\ semanticMap.decision_reasoning.final_decision = final

\* C8: whenever the user-media role is transform or style_guide, the
\* Decision Engine commits generate_with_model without calling the reasoning
\* service, for every realism, availability, attempt number and previous
\* result count; for transform the committed confidence is at least 0.9.
C8_MediaOverrideSynthesizes ==
    (DecidedOn /\ semanticMap.user_media.provided
               /\ semanticMap.user_media.role \in {"transform", "style_guide"}) =>
        /\ Committed("generate_with_model")
        /\ ~lastDecide.llm
        /\ semanticMap.user_media.role = "transform"
              => semanticMap.decision_reasoning.confidence >= 90

C8_Witness ==
    /\ pc = "decided"
    /\ semanticMap.user_media.role = "transform"
    /\ semanticMap.realism_score = 81
    /\ semanticMap.market_availability_estimate = 71
    /\ attemptNumber = 1
    /\ Len(semanticMap.relevant_assets) = 1

\* C9: with attempt number 2 and previous-result count 0 the Decision Engine
\* commits generate_with_model for every realism and availability, without
\* calling the reasoning service.
C9_RetryZeroSynthesizes ==
    (DecidedOn /\ attemptNumber = 2 /\ lastDecide.previousResults = 0) =>
        (Committed("generate_with_model") /\ ~lastDecide.llm)

C9_Witness ==
    /\ pc = "decided"
    /\ attemptNumber = 2
    /\ lastDecide.previousResults = 0
    /\ semanticMap.user_media = NoUserMedia
    /\ semanticMap.realism_score = 81
    /\ semanticMap.market_availability_estimate = 71

\* C10: when neither a media override nor the retry-zero override applies,
\* the first rule that fires decides: availability < 0.3 gives generate;
\* otherwise realism > 0.8 and availability > 0.7 gives fetch; otherwise
\* realism < 0.3 gives generate; the reasoning service is consulted only
\* when none fires (values exactly at 0.3, 0.7 or 0.8 do not fire).
C10_RuleOrder ==
    (/\ DecidedOn
     /\ ~(semanticMap.user_media.provided
          /\ semanticMap.user_media.role \in {"transform", "style_guide"})
     /\ ~(attemptNumber > 1 /\ lastDecide.previousResults = 0)) =>
        IF Availability < 30
        THEN Committed("generate_with_model") /\ ~lastDecide.llm
        ELSE IF Realism > 80 /\ Availability > 70
        THEN Committed("fetch_from_web") /\ ~lastDecide.llm
        ELSE IF Realism < 30
        THEN Committed("generate_with_model") /\ ~lastDecide.llm
        ELSE lastDecide.llm

C10_Witness ==
    /\ pc = "decided"
    /\ lastDecide.llm
    /\ semanticMap.market_availability_estimate = 30
    /\ semanticMap.realism_score = 80
    /\ semanticMap.user_media = NoUserMedia
    /\ attemptNumber = 1

C12_FinalChoiceOneOfThree ==
    semanticMap.decision_reasoning.present =>
        semanticMap.decision_reasoning.final_decision \in FinalDecisions

\* C13: every decision the Decision Engine persists, decided by a rule or by
\* the reasoning service, carries the media fields as a whole: with user
\* media provided, has_user_media is true and the media-use strategy is the
\* one the role gives (transform: img2img, or audio_reference for audio
\* media; style_guide: style_transfer; reference and replace: context_only);
\* without user media neither field is set.
C13_MediaFieldsStamped ==
    LET d == semanticMap.decision_reasoning
        um == semanticMap.user_media
    IN  (lastDecide.called /\ d.present
           /\ um.role \in {"transform", "style_guide", "reference", "replace", "none"}) =>
          IF um.provided
          THEN /\ d.has_user_media
               /\ um.role = "transform" /\ um.modality = "audio"
                     => d.media_use_strategy = "audio_reference"
               /\ um.role = "transform" /\ um.modality # "audio"
                     => d.media_use_strategy = "img2img"
               /\ um.role = "style_guide" => d.media_use_strategy = "style_transfer"
               /\ um.role \in {"reference", "replace"}
                     => d.media_use_strategy = "context_only"
          ELSE ~d.has_user_media /\ d.media_use_strategy = "none"

C13_Witness ==
    /\ pc = "decided"
    /\ lastDecide.response = "json"
    /\ semanticMap.user_media.role = "reference"
    /\ semanticMap.decision_reasoning.has_user_media
    /\ semanticMap.decision_reasoning.media_use_strategy = "context_only"

\* What the Decision Engine does on the document of the last call with the
\* user media taken away: same prompt, intent, attempt number and
\* previous-result count.  (commit leaves all of these as the call read them.)
WithoutMedia ==
    runDecisionReasoning([semanticMap EXCEPT !.user_media = NoUserMedia,
                                             !.decision_reasoning = NoDecision],
                         attemptNumber,
                         [kind |-> "unparsable", final_decision |-> "missing",
                          confidence |-> Undefined])

\* C14: for role replace the Decision Engine ignores the uploaded media: a
\* rule decides with the media exactly when a rule decides without it, and
\* the final choice and confidence committed are then those it commits for
\* the same intent, attempt number and previous-result count without media.
C14_ReplaceDecidesAsWithoutMedia ==
    (DecidedOn /\ semanticMap.user_media.provided
               /\ semanticMap.user_media.role = "replace") =>
        /\ lastDecide.llm <=> WithoutMedia.llm
        /\ ~lastDecide.llm =>
             /\ ~lastDecide.threw /\ ~WithoutMedia.threw
             /\ semanticMap.decision_reasoning.present
             /\ semanticMap.decision_reasoning.final_decision
                  = WithoutMedia.map.decision_reasoning.final_decision
             /\ semanticMap.decision_reasoning.confidence
                  = WithoutMedia.map.decision_reasoning.confidence

C14_Witness ==
    /\ pc = "decided"
    /\ semanticMap.user_media.provided
    /\ semanticMap.user_media.role = "replace"
    /\ ~lastDecide.llm
    /\ semanticMap.decision_reasoning.final_decision = "fetch_from_web"
    /\ semanticMap.decision_reasoning.confidence = 85

\* C15: when the committed media-use strategy is img2img or style_transfer,
\* the relevance stage makes no scoring call, raises nothing, and its
\* relevant set is the whole candidate set, each candidate unscored.
C15_BypassKeepsAllUnscored ==
    (lastMatch.called
       /\ semanticMap.decision_reasoning.media_use_strategy \in {"img2img", "style_transfer"}) =>
        /\ lastMatch.calls = 0
        /\ ~lastMatch.threw
        /\ semanticMap.relevant_assets = semanticMap.fetched_assets
        /\ \A i \in DOMAIN lastMatch.scores : lastMatch.scores[i] = Undefined
        /\ \A i \in DOMAIN semanticMap.relevant_assets :
              semanticMap.relevant_assets[i].relevance_score = Undefined

C15_Witness ==
    /\ pc = "matched"
    /\ semanticMap.decision_reasoning.media_use_strategy = "style_transfer"
    /\ Len(semanticMap.fetched_assets) = MaxCandidates
    /\ Len(semanticMap.relevant_assets) = MaxCandidates

\* The content hashes of the assets of a list.
HashesOf(assets) == {assets[i].sha256 : i \in DOMAIN assets}

\* The last relevance call went through scoring and returned.
Scored ==
    /\ lastMatch.called /\ ~lastMatch.threw
    /\ semanticMap.fetched_assets # <<>>
    /\ semanticMap.decision_reasoning.media_use_strategy \notin {"img2img", "style_transfer"}

C17_NeutralScoreKept ==
    (Scored /\ ~lastMatch.tokens) =>
        \A i \in lastMatch.fallback :
            /\ lastMatch.scores[i] = 50
            /\ semanticMap.fetched_assets[i].sha256 \in HashesOf(semanticMap.relevant_assets)

\* C18: when a scoring-service call fails during the relevance stage (the
\* call for one batch of images, or for one audio candidate), only that
\* batch is degraded: the stage still returns normally, and every candidate
\* of another batch that was scored at or above the threshold is in the
\* persisted relevant set.
C18_FailedBatchDegradesOnly ==
    (lastMatch.called /\ (lastMatch.failedBatch > 0 \/ lastMatch.fallback # {})) =>
        /\ ~lastMatch.threw
        /\ pc # "match_threw"
        /\ \A i \in DOMAIN lastMatch.scores :
              lastMatch.scores[i] >= MIN_SCORE
                 => semanticMap.fetched_assets[i].sha256
                       \in HashesOf(semanticMap.relevant_assets)

\* C19: after an attempt the relevant set holds no two assets with the same
\* content hash, whatever their origin (retrieved or generated) and provider.
C19_RelevantHashesDistinct ==
    JustEvaluated =>
        \A i, j \in DOMAIN semanticMap.relevant_assets :
            i # j => semanticMap.relevant_assets[i].sha256
                        # semanticMap.relevant_assets[j].sha256

\* C20: within one fetch pass the hash of a download is that of its bytes,
\* whatever the provider; the first download of each hash is kept (it is
\* the one whose provider the returned asset names) and every later one is
\* discarded, so the returned candidates have pairwise distinct hashes and
\* are what the pass appended to the document.
C20_FirstOfEachHashKept ==
    lastFetch.called =>
        LET items == lastFetch.items
            meta == lastFetch.returned
            first(h) == CHOOSE i \in DOMAIN items :
                            /\ items[i].hash = h
                            /\ \A j \in 1..(i - 1) : items[j].hash # h
        IN  /\ \A k, l \in DOMAIN meta : k # l => meta[k].sha256 # meta[l].sha256
            /\ HashesOf(meta) = {items[i].hash : i \in DOMAIN items}
            /\ \A k \in DOMAIN meta : meta[k].source = items[first(meta[k].sha256)].source
            /\ \A k, l \in DOMAIN meta :
                  k < l => first(meta[k].sha256) < first(meta[l].sha256)
            /\ Len(semanticMap.fetched_assets) >= Len(meta)
            /\ SubSeq(semanticMap.fetched_assets,
                      Len(semanticMap.fetched_assets) - Len(meta) + 1,
                      Len(semanticMap.fetched_assets)) = meta

\* Two providers delivered the same bytes, a later download repeated them
\* again, and the pass returned the first one only besides another file.
C20_Witness ==
    /\ pc = "fetched"
    /\ lastFetch.called
    /\ Len(lastFetch.items) = 4
    /\ lastFetch.items[1].source = "pexels" /\ lastFetch.items[1].hash = 1
    /\ lastFetch.items[2].hash = 2
    /\ lastFetch.items[3].source = "pixabay" /\ lastFetch.items[3].hash = 1
    /\ lastFetch.items[4].hash = 1
    /\ Len(lastFetch.returned) = 2
    /\ lastFetch.returned[1].source = "pexels" /\ lastFetch.returned[1].sha256 = 1
    /\ lastFetch.returned[2].sha256 = 2

\* The order the loop body awaits its calls in.
Forward ==
    {<<"stage1", "stage2">>, <<"stage2", "read">>, <<"read", "fetch">>,
     <<"read", "generate">>, <<"fetch", "generate">>, <<"fetch", "relevance">>,
     <<"generate", "relevance">>, <<"relevance", "classify">>,
     <<"classify", "evaluate">>}

\* C21: the stages of an attempt run one at a time in the order intent
\* extraction, decision, execution (fetch and/or generate), relevance
\* scoring, classification, evaluation; the first stage of the next attempt
\* starts only from the evaluation of the current one or from the error of
\* one of its stages, which the step records.
C21_StagesInOrder ==
    [][pc' # pc =>
          \/ <<pc, pc'>> \in Forward
          \/ /\ pc = "evaluate"
             /\ pc' \in {"stage1", "finalize", "exhausted"}
             /\ Last(outcomes') \in {"accepted", "insufficient"}
          \/ /\ pc \in TryStages \ {"evaluate"}
             /\ pc' \in {"stage1", "exhausted"}
             /\ Last(outcomes') = "error"
             /\ attempts' = attempts + 1
          \/ pc = "finalize" /\ pc' = "accepted"]_vars

\* The second attempt, started by the error of a stage of the first, has
\* generated, scored and classified, and is about to be evaluated.
C21_Witness ==
    /\ pc = "evaluate"
    /\ passes = 2
    /\ outcomes = <<"error">>
    /\ decision = "generate_with_model"
    /\ lastMatch.called
    /\ semanticMap.relevant_assets # <<>>

\* C22: when the execution stage of an attempt starts (the decision has been
\* written; neither runFetchAssets nor runGenerateWithFal has run yet in
\* this attempt), the persisted candidate list is empty, whatever the
\* earlier attempts left and however they ended.
C22_ExecutionStartsEmpty ==
    (\/ pc \in {"read", "fetch", "w_fetch"}
     \/ pc = "generate" /\ decision = "generate_with_model")
        => semanticMap.fetched_assets = <<>>

\* The second attempt, started after a stage error ended the first, is
\* about to execute its decision.
C22_Witness ==
    /\ pc = "generate"
    /\ decision = "generate_with_model"
    /\ passes = 2
    /\ outcomes = <<"error">>
    /\ attemptNumber = 2
    /\ semanticMap.fetched_assets = <<>>

C24_RoleSameInEveryAttempt ==
    (pc = "read" /\ mediaContext # "none" /\ resolvedRole # "none")
        => semanticMap.user_media.role = resolvedRole

\* C25: a scored candidate is kept exactly when its score reaches the
\* minimum of its modality, and the minimum applied to image candidates is
\* strictly higher than the minimum applied to audio candidates.
C25_ImageThresholdStricter ==
    Scored =>
        /\ \A i \in DOMAIN semanticMap.fetched_assets :
              semanticMap.fetched_assets[i].sha256 \in HashesOf(semanticMap.relevant_assets)
                 <=> lastMatch.scores[i] >= minScore(semanticMap.fetched_assets[i].type)
        /\ minScore("image") > minScore("audio")

\* C26: on an attempt after the first, the previous-result count the
\* Decision Engine reads from the document is the number of relevant assets
\* the attempt before produced: stage 1 of the new attempt hands the
\* document on with that count.
C26_PreviousCountIsLastAttempts ==
    [][(pc = "stage1" /\ pc' = "stage2" /\ attempts >= 1)
          => Len(semanticMap'.relevant_assets) = Len(semanticMap.relevant_assets)]_vars

\* C27: the number of relevant assets the satisfaction evaluation has just
\* read is the number of candidates the relevance filter kept in that
\* attempt: classification, which runs in between, removes and adds none.
C27_EvaluatedCountIsKeptCount ==
    (/\ JustEvaluated
     /\ lastMatch.called /\ ~lastMatch.threw
     /\ semanticMap.decision_reasoning.media_use_strategy
           \notin {"img2img", "style_transfer"})
        => Len(semanticMap.relevant_assets)
              = Cardinality({i \in DOMAIN lastMatch.scores :
                                lastMatch.scores[i] >= MIN_SCORE})

\* C28: in a run whose user-media role resolved to transform or style_guide
\* the loop body is started once only: no second attempt is ever started.
C28_TransformRunsOnce ==
    resolvedRole \in {"transform", "style_guide"} => passes = 1

\* C29: when an evaluation finds the results insufficient and another
\* attempt follows, the prompt of that attempt differs from the prompt of
\* the attempt just evaluated.
C29_RetryChangesPrompt ==
    [][(pc = "evaluate" /\ ~satisfied' /\ pc' = "stage1")
          => currentPrompt' # currentPrompt]_vars

\* C30: after a fetch pass the file named by every candidate the pass
\* returned is on disk: discarding a duplicate download removed no file
\* that backs a kept candidate.
C30_KeptFilesExist ==
    lastFetch.called =>
        \A k \in DOMAIN lastFetch.returned :
            fileName(lastFetch.returned[k].source, lastFetch.returned[k].sha256)
                \in lastFetch.files

====
